---- MODULE Spec2Model ----
(***************************************************************************)
(* Model of the ambiguity_simple package: the lexicon store and its lazy   *)
(* caches, the word scorer (classify_word), the batch classifier           *)
(* (classify_words, classify_file) and the evaluator                       *)
(* (evaluate_against_gold).                                                *)
(*                                                                         *)
(* A str is a sequence of one-character strings.  Scores are kept in       *)
(* hundredths (score * 100) so that the float arithmetic of classify_word  *)
(* is exact integer arithmetic: every term of the score is a multiple of   *)
(* 0.02 when the frequency is a whole number, the threshold 0.05 is not,   *)
(* so no comparison of the code is within rounding distance of a tie.      *)
(* Ratios (accuracy, precision, recall, f1) are kept as fractions          *)
(* <<numerator, denominator>>.                                             *)
(***************************************************************************)
EXTENDS Integers, Sequences, FiniteSets, TLC

VARIABLES
    \* classifier.py: module state and data files
    common_txt,            \* data/common.txt: the set of its lines
    proper_txt,            \* data/proper.txt: Some(the set of its lines), or None
    wordfreq_available,    \* _WORDFREQ_AVAILABLE
    zipf_level,            \* what zipf_frequency answers when available
    common_cache,          \* _common_cache
    common_lower_cache,    \* _common_lower_cache
    proper_cache,          \* _proper_cache
    proper_lower_cache,    \* _proper_lower_cache
    \* the latest classifier call and what it produced
    op,                    \* "none", "classify_words" or "classify_file"
    words,                 \* the list handed to classify_words
    result,                \* what classify_words returned: [ambiguous, proper]
    written,               \* what classify_file wrote: [ambiguous, proper] or None
    \* concurrent first use of the lexicon store
    pc,                    \* per thread: where it is in the loaders
    local,                 \* per thread: the set it has built and not yet stored
    stores,                \* per cache: how many times it has been assigned
    \* evaluation.py: the three input files and the outcome of one evaluation
    gold_fieldnames,       \* header of the gold TSV
    gold_rows,             \* its rows: <<Word, Truth>>
    ambiguous_predictions, \* the set of lines of the common-predictions file
    proper_predictions,    \* the set of lines of the proper-predictions file
    outcome                \* what evaluate_against_gold did: raised or returned

classifier_vars == <<common_txt, proper_txt, wordfreq_available, zipf_level,
                     common_cache, common_lower_cache, proper_cache,
                     proper_lower_cache>>
call_vars == <<op, words, result, written>>
thread_vars == <<pc, local, stores>>
eval_vars == <<gold_fieldnames, gold_rows, ambiguous_predictions,
               proper_predictions, outcome>>
vars == <<classifier_vars, call_vars, thread_vars, eval_vars>>

\* An optional value (None or a value) is a set with at most one element.
None == {}
Some(v) == {v}
Get(o) == CHOOSE v \in o : TRUE

----------------------------------------------------------------------------
(* Bounds of the model.                                                    *)

MaxWords == 2       \* longest input list / file handed to the classifier
MaxLexicon == 1     \* most lines in a lexicon data file
LongLen == 41       \* length of the long word of the vocabulary
MaxZipf == 8        \* the frequency a word has when the provider is enabled
MaxGoldRows == 3    \* most rows in the gold file
NumThreads == 2     \* threads that use the lexicon store concurrently

----------------------------------------------------------------------------
(* Python str operations.                                                  *)

UPPER == <<"A", "B", "C", "D", "E", "F", "G", "H", "I", "J", "K", "L", "M",
           "N", "O", "P", "Q", "R", "S", "T", "U", "V", "W", "X", "Y", "Z">>
LOWER == <<"a", "b", "c", "d", "e", "f", "g", "h", "i", "j", "k", "l", "m",
           "n", "o", "p", "q", "r", "s", "t", "u", "v", "w", "x", "y", "z">>

UpperChars == {UPPER[i] : i \in DOMAIN UPPER}
LowerChars == {LOWER[i] : i \in DOMAIN LOWER}
\* upper-case character -> its lower-case form
ToLower == [c \in UpperChars |-> LOWER[CHOOSE i \in DOMAIN UPPER : UPPER[i] = c]]
\* cased character -> its place in the alphabet
Place == [c \in UpperChars \cup LowerChars |->
             CHOOSE i \in DOMAIN UPPER : UPPER[i] = c \/ LOWER[i] = c]

IsUpperChar(c) == c \in UpperChars
IsLowerChar(c) == c \in LowerChars
IsSpaceChar(c) == c = " "

\* ord(c): space, digits, upper-case, lower-case in code-point order
Ord(c) ==
    IF IsSpaceChar(c) THEN 32
    ELSE IF IsUpperChar(c) THEN 64 + Place[c]
    ELSE IF IsLowerChar(c) THEN 96 + Place[c]
    ELSE 49

LowerChar(c) == IF IsUpperChar(c) THEN ToLower[c] ELSE c

\* str.lower()
Lower(s) == [i \in 1..Len(s) |-> LowerChar(s[i])]

\* str.islower(): at least one cased character and no upper-case one
IsLower(s) ==
    /\ \E i \in 1..Len(s) : IsLowerChar(s[i])
    /\ \A i \in 1..Len(s) : ~IsUpperChar(s[i])

\* str.strip()
Strip(s) ==
    IF \A i \in 1..Len(s) : IsSpaceChar(s[i]) THEN <<>>
    ELSE LET first == CHOOSE i \in 1..Len(s) :
                          /\ ~IsSpaceChar(s[i])
                          /\ \A j \in 1..(i - 1) : IsSpaceChar(s[j])
             last  == CHOOSE i \in 1..Len(s) :
                          /\ ~IsSpaceChar(s[i])
                          /\ \A j \in (i + 1)..Len(s) : IsSpaceChar(s[j])
         IN  SubSeq(s, first, last)

\* s < t for str: code-point lexicographic order
StrLess(s, t) ==
    \E k \in 0..Len(s) :
        /\ k <= Len(t)
        /\ \A i \in 1..k : s[i] = t[i]
        /\ \/ k = Len(s) /\ k < Len(t)
           \/ k < Len(s) /\ k < Len(t) /\ Ord(s[k + 1]) < Ord(t[k + 1])

Range(s) == {s[i] : i \in 1..Len(s)}

RECURSIVE SortedBy(_, _)
\* x put into the ascending list s, after the items that are not greater
InsertSorted(x, s) ==
    LET before == {i \in 1..Len(s) : ~StrLess(x, s[i])}
        n == Cardinality(before)
    IN  SubSeq(s, 1, n) \o <<x>> \o SubSeq(s, n + 1, Len(s))
\* the first n items of s, in ascending order
SortedBy(s, n) ==
    IF n = 0 THEN <<>> ELSE InsertSorted(s[n], SortedBy(s, n - 1))

\* sorted(list): ascending, by <
Sorted(s) == SortedBy(s, Len(s))

RECURSIVE FromKeys(_, _)
\* list(dict.fromkeys(list)): the first occurrence of each item, in order
FromKeys(s, n) ==
    IF n = 0 THEN <<>>
    ELSE LET head == FromKeys(s, n - 1)
         IN  IF s[n] \in Range(head) THEN head ELSE Append(head, s[n])

----------------------------------------------------------------------------
(* classifier.py: constants, in hundredths where they are score terms.     *)

COMMON_MEMBERSHIP == 500
PROPER_MEMBERSHIP == -400
\* 0.9 per unit of frequency, in hundredths
ZIPF_MULTIPLIER == 90
ZIPF_BIAS == -4
WORD_LENGTH_NEUTRAL == 7
WORD_LENGTH_MULTIPLIER == 4
CAPITALIZATION_PENALTY == 0
CAPITALIZATION_ZIPF_LOW == 2
CAPITALIZATION_ZIPF_RANGE == 4
COMMON_THRESHOLD == 5
NOT_THRESHOLD == -4000

----------------------------------------------------------------------------
(* The vocabulary of the model.                                            *)

LongWord == [i \in 1..LongLen |-> "a"]

\* lines a lexicon data file may hold (one of them padded, one blank)
LexiconLines == {<<"a">>, <<" ", "A">>, LongWord, <<" ">>}

\* raw words a caller or an input file may hold
RawWords == {<<" ">>, <<"a">>, <<"A">>, <<" ", "a">>, <<"A", "a">>, <<"1">>,
             LongWord}

SubsetsUpTo(S, n) == {T \in SUBSET S : Cardinality(T) <= n}

RECURSIVE ListsUpTo(_, _)
ListsUpTo(S, n) ==
    IF n = 0 THEN {<<>>}
    ELSE LET shorter == ListsUpTo(S, n - 1)
         IN  shorter \cup {Append(s, x) : s \in shorter, x \in S}

----------------------------------------------------------------------------
(* classifier.py: the lexicon store.  Each loader answers the cache, which *)
(* it fills from the data file when it is still None.                      *)

\* {line.strip() for line in handle if line.strip()}
StrippedLines(lines) == {Strip(l) : l \in {x \in lines : Strip(x) # <<>>}}

load_common_words ==
    IF common_cache = None THEN StrippedLines(common_txt) ELSE Get(common_cache)

load_common_lower ==
    IF common_lower_cache = None
    THEN {Lower(w) : w \in load_common_words}
    ELSE Get(common_lower_cache)

load_proper_words ==
    IF proper_cache = None
    THEN (IF proper_txt # None THEN StrippedLines(Get(proper_txt)) ELSE {})
    ELSE Get(proper_cache)

load_proper_lower ==
    IF proper_lower_cache = None
    THEN {Lower(w) : w \in load_proper_words}
    ELSE Get(proper_lower_cache)

\* _zipf(word): 0.0 without the provider
zipf(word) == IF ~wordfreq_available THEN 0 ELSE zipf_level

----------------------------------------------------------------------------
(* classifier.py: classify_word.                                           *)

Min(a, b) == IF a < b THEN a ELSE b
Max(a, b) == IF a > b THEN a ELSE b

\* lines 101-102
CommonTerm(word, commons, commons_lower) ==
    IF word \in commons \/ (IsLower(word) /\ Lower(word) \in commons_lower)
    THEN COMMON_MEMBERSHIP ELSE 0

\* mutant of ProperTerm: the elif of line 105 written as a second if
ProperTerm_two_ifs(word, propers, propers_lower) ==
    (IF propers # {} /\ word \in propers THEN PROPER_MEMBERSHIP ELSE 0)
    + (IF propers_lower # {} /\ IsLower(word) /\ Lower(word) \in propers_lower
       THEN PROPER_MEMBERSHIP ELSE 0)

\* lines 103-106: if ... elif ...
ProperTerm(word, propers, propers_lower) ==
    IF propers # {} /\ word \in propers THEN PROPER_MEMBERSHIP
    ELSE IF propers_lower # {} /\ IsLower(word) /\ Lower(word) \in propers_lower
         THEN PROPER_MEMBERSHIP
         ELSE 0

\* lines 114-119
CapitalizationTerm(word, z) ==
    IF CAPITALIZATION_PENALTY # 0 /\ word # <<>> /\ IsUpperChar(word[1])
    THEN LET freq_factor ==
                 IF wordfreq_available
                 THEN Max(0, Min(CAPITALIZATION_ZIPF_RANGE, z - CAPITALIZATION_ZIPF_LOW))
                 ELSE 0
         IN  (CAPITALIZATION_PENALTY * freq_factor) \div CAPITALIZATION_ZIPF_RANGE
    ELSE 0

\* lines 122-124
Label(score) ==
    IF score <= NOT_THRESHOLD THEN "likely non-ambiguous"
    ELSE IF score >= COMMON_THRESHOLD THEN "likely ambiguous"
    ELSE "likely non-ambiguous"

\* the four sets as the loaders answer them (lines 95-98, 134-137)
Lexicon ==
    [commons |-> load_common_words, commons_lower |-> load_common_lower,
     propers |-> load_proper_words, propers_lower |-> load_proper_lower]

\* classify_word(raw), lex being the four sets the loaders answer
classify_word(raw, lex) ==
    LET word == Strip(raw)
    IN  IF word = <<>>
        THEN [word |-> word, label |-> "unknown", score |-> 0,
              reason |-> <<>>]
        ELSE LET z == zipf(Lower(word))
                 length_delta == Len(word) - WORD_LENGTH_NEUTRAL
                 score == CommonTerm(word, lex.commons, lex.commons_lower)
                          + ProperTerm(word, lex.propers, lex.propers_lower)
                          + ZIPF_MULTIPLIER * (z + ZIPF_BIAS)
                          - WORD_LENGTH_MULTIPLIER * length_delta
                          - CapitalizationTerm(word, z)
             IN  [word |-> word, label |-> Label(score), score |-> score,
                  reason |-> <<IF wordfreq_available THEN z ELSE -1,
                               length_delta>>]

----------------------------------------------------------------------------
(* classifier.py: classify_words and classify_file.                        *)

\* mutant of treat_as_common: the label alone decides
treat_as_common_label_only(res, commons, commons_lower) ==
    res.label = "likely ambiguous"

\* lines 144-148
treat_as_common(res, commons, commons_lower) ==
    \/ res.label = "likely ambiguous"
    \/ res.word \in commons
    \/ (IsLower(res.word) /\ Lower(res.word) \in commons_lower)

\* mutant of treat_as_proper: without the all-lowercase fallback
treat_as_proper_exact_only(res, propers, propers_lower) ==
    res.word \in propers

\* lines 149-152
treat_as_proper(res, propers, propers_lower) ==
    \/ res.word \in propers
    \/ (IsLower(res.word) /\ Lower(res.word) \in propers_lower)

\* lines 153-156: TRUE when the word is appended to ambiguous
GoesToAmbiguous(res, lex) ==
    /\ treat_as_common(res, lex.commons, lex.commons_lower)
    /\ ~treat_as_proper(res, lex.propers, lex.propers_lower)

RECURSIVE ClassifyLoop(_, _, _)
\* the for loop of classify_words over the first n words
ClassifyLoop(ws, n, lex) ==
    IF n = 0 THEN [ambiguous |-> <<>>, proper |-> <<>>]
    ELSE LET acc == ClassifyLoop(ws, n - 1, lex)
             res == classify_word(ws[n], lex)
         IN  IF res.word = <<>> \/ res.label = "unknown" THEN acc
             ELSE IF GoesToAmbiguous(res, lex)
                  THEN [acc EXCEPT !.ambiguous = Append(@, res.word)]
                  ELSE [acc EXCEPT !.proper = Append(@, res.word)]

classify_words(ws, lex) == ClassifyLoop(ws, Len(ws), lex)

\* line 162: [line.strip() for line in reader if line.strip()]
ReadWords(lines) == SelectSeq([i \in 1..Len(lines) |-> Strip(lines[i])],
                              LAMBDA w : w # <<>>)

\* mutant of WriteOrder: sorted, repeats kept
WriteOrder_keeps_repeats(xs) == Sorted(xs)

\* lines 165, 168: sorted(dict.fromkeys(xs))
WriteOrder(xs) == Sorted(FromKeys(xs, Len(xs)))

\* what a classifier call leaves in the four caches
CachesLoaded(lex) ==
    /\ common_cache' = Some(lex.commons)
    /\ common_lower_cache' = Some(lex.commons_lower)
    /\ proper_cache' = Some(lex.propers)
    /\ proper_lower_cache' = Some(lex.propers_lower)

ClassifyWords ==
    /\ op = "none"
    /\ LET lex == Lexicon
       IN  /\ \E ws \in ListsUpTo(RawWords, MaxWords) :
                 /\ words' = ws
                 /\ result' = classify_words(ws, lex)
           /\ CachesLoaded(lex)
    /\ op' = "classify_words"
    /\ written' = None
    /\ UNCHANGED <<common_txt, proper_txt, wordfreq_available, zipf_level>>
    /\ UNCHANGED <<thread_vars, eval_vars>>

ClassifyFile ==
    /\ op = "none"
    /\ LET lex == Lexicon
       IN  /\ \E lines \in ListsUpTo(RawWords, MaxWords) :
                 LET ws == ReadWords(lines)
                     lists == classify_words(ws, lex)
                 IN  /\ words' = ws
                     /\ result' = lists
                     /\ written' = Some([ambiguous |-> WriteOrder(lists.ambiguous),
                                         proper |-> WriteOrder(lists.proper)])
           /\ CachesLoaded(lex)
    /\ op' = "classify_file"
    /\ UNCHANGED <<common_txt, proper_txt, wordfreq_available, zipf_level>>
    /\ UNCHANGED <<thread_vars, eval_vars>>

\* the variables the classifier does not use, at rest
ThreadsIdle ==
    /\ pc = <<>>
    /\ local = <<>>
    /\ stores = <<>>

EvalIdle ==
    /\ gold_fieldnames = {}
    /\ gold_rows = <<>>
    /\ ambiguous_predictions = {}
    /\ proper_predictions = {}
    /\ outcome = [kind |-> "none"]

CachesEmpty ==
    /\ common_cache = None
    /\ common_lower_cache = None
    /\ proper_cache = None
    /\ proper_lower_cache = None

LexiconInit ==
    /\ common_txt \in SubsetsUpTo(LexiconLines, MaxLexicon)
    /\ proper_txt \in {None} \cup {Some(f) : f \in SubsetsUpTo(LexiconLines, MaxLexicon)}
    /\ wordfreq_available \in BOOLEAN
    /\ zipf_level \in (IF wordfreq_available THEN {0, MaxZipf} ELSE {0})
    /\ CachesEmpty

InitClassify ==
    /\ LexiconInit
    /\ op = "none"
    /\ words = <<>>
    /\ result = [ambiguous |-> <<>>, proper |-> <<>>]
    /\ written = None
    /\ ThreadsIdle
    /\ EvalIdle

NextClassify == ClassifyWords \/ ClassifyFile

SpecClassify == InitClassify /\ [][NextClassify]_vars

----------------------------------------------------------------------------
(* classifier.py: first use of the lexicon store by several threads.  Each *)
(* thread calls the four loaders in the order of lines 134-137.  A loader  *)
(* tests its cache (line 47, 56, 63, 78), builds the set when the test saw *)
(* None, and assigns it to the global; the interpreter may switch threads  *)
(* between these steps (the build reads a file).                           *)

Threads == 1..NumThreads

Loaders == <<"_load_common_words", "_load_common_lower",
             "_load_proper_words", "_load_proper_lower">>

CacheOf(k) ==
    CASE k = 1 -> common_cache
      [] k = 2 -> common_lower_cache
      [] k = 3 -> proper_cache
      [] k = 4 -> proper_lower_cache

\* the set loader k builds when it found its cache None; a lower loader
\* gets the words from the loader called just before it, whose cache is set
\* by then
BuiltBy(k) ==
    CASE k = 1 -> StrippedLines(common_txt)
      [] k = 2 -> {Lower(w) : w \in load_common_words}
      [] k = 3 -> (IF proper_txt # None THEN StrippedLines(Get(proper_txt)) ELSE {})
      [] k = 4 -> {Lower(w) : w \in load_proper_words}

\* where a thread goes when loader k returns
AfterLoader(k) == IF k < Len(Loaders) THEN <<k + 1, "test">> ELSE <<0, "done">>

\* if _xxx_cache is None:
TestCache(t) ==
    /\ pc[t][2] = "test"
    /\ pc' = [pc EXCEPT ![t] = IF CacheOf(pc[t][1]) = None
                               THEN <<pc[t][1], "build">>
                               ELSE AfterLoader(pc[t][1])]
    /\ UNCHANGED <<local, stores, classifier_vars, call_vars, eval_vars>>

\* the right-hand side of the assignment: the file is read, the set built
BuildSet(t) ==
    /\ pc[t][2] = "build"
    /\ local' = [local EXCEPT ![t] = BuiltBy(pc[t][1])]
    /\ pc' = [pc EXCEPT ![t] = <<pc[t][1], "store">>]
    /\ UNCHANGED <<stores, classifier_vars, call_vars, eval_vars>>

\* _xxx_cache = <the set>; return _xxx_cache
StoreCache(t) ==
    /\ pc[t][2] = "store"
    /\ LET k == pc[t][1]
       IN  /\ common_cache' = IF k = 1 THEN Some(local[t]) ELSE common_cache
           /\ common_lower_cache' = IF k = 2 THEN Some(local[t]) ELSE common_lower_cache
           /\ proper_cache' = IF k = 3 THEN Some(local[t]) ELSE proper_cache
           /\ proper_lower_cache' = IF k = 4 THEN Some(local[t]) ELSE proper_lower_cache
           /\ stores' = [stores EXCEPT ![k] = @ + 1]
           /\ pc' = [pc EXCEPT ![t] = AfterLoader(k)]
    /\ local' = [local EXCEPT ![t] = {}]
    /\ UNCHANGED <<common_txt, proper_txt, wordfreq_available, zipf_level>>
    /\ UNCHANGED <<call_vars, eval_vars>>

InitCache ==
    /\ LexiconInit
    /\ ~wordfreq_available
    /\ pc = [t \in Threads |-> <<1, "test">>]
    /\ local = [t \in Threads |-> {}]
    /\ stores = [k \in DOMAIN Loaders |-> 0]
    /\ op = "none"
    /\ words = <<>>
    /\ result = [ambiguous |-> <<>>, proper |-> <<>>]
    /\ written = None
    /\ EvalIdle

NextCache == \E t \in Threads : TestCache(t) \/ BuildSet(t) \/ StoreCache(t)

SpecCache == InitCache /\ [][NextCache]_vars

----------------------------------------------------------------------------
(* evaluation.py: the evaluator.                                           *)

Common == <<"C", "o", "m", "m", "o", "n">>
Ambiguous == <<"a", "m", "b", "i", "g", "u", "o", "u", "s">>
Proper == <<"P", "r", "o", "p", "e", "r">>
Unknown == <<"x">>

\* rows a gold file may hold: <<Word cell, Truth cell>>
GoldRowPool ==
    {<<<<"a">>, Common>>, <<<<"a">>, Ambiguous>>, <<<<"a">>, Proper>>,
     <<<<" ", "a">>, Proper>>, <<<<"A">>, Common>>, <<<<"A">>, Proper>>,
     <<<<"A">>, Unknown>>, <<<<" ">>, Unknown>>}

\* lines a prediction file may hold
PredictionLines == {<<"a">>, <<" ", "A">>, <<"1">>}

\* a fraction n/d
Frac(n, d) == <<n, d>>
Absent == <<>>
FracMul(x, y) == <<x[1] * y[1], x[2] * y[2]>>
FracAdd(x, y) == <<x[1] * y[2] + y[1] * x[2], x[2] * y[2]>>
FracDiv(x, y) == <<x[1] * y[2], x[2] * y[1]>>
FracIsZero(x) == x[1] = 0

\* a ValueError: which check raised it, and the count or word its message names
Raised(error, count, word) ==
    [kind |-> "error", error |-> error, count |-> count, word |-> word]

\* the lower-cased names _normalise_truth accepts (line 183, line 185)
CommonNames == {Lower(Common), Ambiguous,
                Ambiguous \o <<" ", "n", "o", "u", "n">>}
ProperNames == {Lower(Proper), Lower(Proper) \o <<" ", "n", "o", "u", "n">>}

\* _normalise_truth(label): "common", "proper", or "" when it raises
normalise_truth(label) ==
    LET lowered == Lower(Strip(label))
    IN  IF lowered \in CommonNames THEN "common"
        ELSE IF lowered \in ProperNames THEN "proper"
        ELSE ""

\* mutant of GoldLoop: a repeated word keeps its first label, no check
RECURSIVE GoldLoop_first_wins(_, _)
GoldLoop_first_wins(rows, n) ==
    IF n = 0 THEN [error |-> "", word |-> <<>>, labels |-> <<>>]
    ELSE LET acc == GoldLoop_first_wins(rows, n - 1)
             word == Strip(rows[n][1])
             truth == normalise_truth(Strip(rows[n][2]))
         IN  IF acc.error # "" THEN acc
             ELSE IF word = <<>> THEN acc
             ELSE IF truth = ""
                  THEN [acc EXCEPT !.error = "label", !.word = rows[n][2]]
             ELSE [acc EXCEPT !.labels = acc.labels @@ (word :> truth)]

RECURSIVE GoldLoop(_, _)
\* the for loop of _load_gold_labels over the first n rows:
\* [error |-> "" or what was raised, word |-> the word or label the error
\*  names, labels |-> the dict so far]
GoldLoop(rows, n) ==
    IF n = 0 THEN [error |-> "", word |-> <<>>, labels |-> <<>>]
    ELSE LET acc == GoldLoop(rows, n - 1)
             word == Strip(rows[n][1])
             truth == normalise_truth(Strip(rows[n][2]))
         IN  IF acc.error # "" THEN acc
             ELSE IF word = <<>> THEN acc
             ELSE IF truth = ""
                  THEN [acc EXCEPT !.error = "label", !.word = rows[n][2]]
             ELSE IF word \in DOMAIN acc.labels /\ acc.labels[word] # truth
                  THEN [acc EXCEPT !.error = "conflict", !.word = word]
                  ELSE [acc EXCEPT !.labels =
                            (word :> truth) @@ acc.labels]

\* _load_gold_labels(path)
load_gold_labels(fieldnames, rows) ==
    IF fieldnames = None \/ {"Word", "Truth"} \ Get(fieldnames) # {}
    THEN [error |-> "columns", word |-> <<>>, labels |-> <<>>]
    ELSE GoldLoop(rows, Len(rows))

\* _load_prediction_words(path)
load_prediction_words(lines) == StrippedLines(lines)

\* the key of _sort_words: (item.lower(), item)
KeyLess(s, t) ==
    \/ StrLess(Lower(s), Lower(t))
    \/ Lower(s) = Lower(t) /\ StrLess(s, t)

RECURSIVE sort_words(_)
\* _sort_words(words)
sort_words(S) ==
    IF S = {} THEN <<>>
    ELSE LET least == CHOOSE x \in S : \A y \in S \ {x} : KeyLess(x, y)
         IN  <<least>> \o sort_words(S \ {least})

\* line 112
Accuracy(true_positive, true_negative, total_words) ==
    IF total_words # 0 THEN Frac(true_positive + true_negative, total_words)
    ELSE Frac(0, 1)

\* mutant of Ratio: 0.0 where the code answers None
Ratio_zero_for_none(true_positive, other) ==
    IF true_positive + other # 0
    THEN Frac(true_positive, true_positive + other)
    ELSE Frac(0, 1)

\* lines 113-117, and 118-122 with false_negative for other
Ratio(true_positive, other) ==
    IF true_positive + other # 0
    THEN Frac(true_positive, true_positive + other)
    ELSE Absent

\* mutant of F1: the division by (precision + recall) left out
F1_not_divided(precision, recall) ==
    IF precision # Absent /\ recall # Absent
       /\ ~FracIsZero(FracAdd(precision, recall))
    THEN FracMul(FracMul(Frac(2, 1), precision), recall)
    ELSE Absent

\* lines 123-127
F1(precision, recall) ==
    IF precision # Absent /\ recall # Absent
       /\ ~FracIsZero(FracAdd(precision, recall))
    THEN FracDiv(FracMul(FracMul(Frac(2, 1), precision), recall),
                 FracAdd(precision, recall))
    ELSE Absent

\* lines 84-85: only gold-known words count
GoldKnown(predicted_all, gold_words) == predicted_all \cap gold_words

\* mutant of OverlappingPredictions: one file's words only
OverlappingPredictions_one_sided(predicted_common, predicted_proper) ==
    predicted_common

\* line 87
OverlappingPredictions(predicted_common, predicted_proper) ==
    predicted_common \cap predicted_proper

\* mutant of MissingWords: the proper predictions forgotten
MissingWords_common_only(gold_words, predicted_common, predicted_proper) ==
    gold_words \ predicted_common

\* line 95
MissingWords(gold_words, predicted_common, predicted_proper) ==
    gold_words \ (predicted_common \cup predicted_proper)

\* evaluate_against_gold(gold, ambiguous predictions, proper predictions)
evaluate_against_gold(fieldnames, rows, ambiguous_lines, proper_lines) ==
    LET gold == load_gold_labels(fieldnames, rows)
        gold_labels == gold.labels
        gold_words == DOMAIN gold_labels
        gold_common == {w \in gold_words : gold_labels[w] = "common"}
        gold_proper == gold_words \ gold_common
        predicted_common_all == load_prediction_words(ambiguous_lines)
        predicted_proper_all == load_prediction_words(proper_lines)
        extra_common_predictions == predicted_common_all \ gold_words
        extra_proper_predictions == predicted_proper_all \ gold_words
        predicted_common == GoldKnown(predicted_common_all, gold_words)
        predicted_proper == GoldKnown(predicted_proper_all, gold_words)
        overlapping_predictions ==
            OverlappingPredictions(predicted_common, predicted_proper)
        missing_words == MissingWords(gold_words, predicted_common, predicted_proper)
        true_positive_words == gold_common \cap predicted_common
        false_negative_words == gold_common \ predicted_common
        false_positive_words == predicted_common \cap gold_proper
        true_negative_words == gold_proper \cap predicted_proper
        true_positive == Cardinality(true_positive_words)
        true_negative == Cardinality(true_negative_words)
        false_positive == Cardinality(false_positive_words)
        false_negative == Cardinality(false_negative_words)
        precision == Ratio(true_positive, false_positive)
        recall == Ratio(true_positive, false_negative)
    IN  IF gold.error # "" THEN Raised(gold.error, 0, gold.word)
        ELSE IF overlapping_predictions # {}
        THEN Raised("overlap", Cardinality(overlapping_predictions), <<>>)
        ELSE [kind |-> "report",
              total_words |-> Cardinality(gold_words),
              total_common |-> Cardinality(gold_common),
              total_proper |-> Cardinality(gold_proper),
              predicted_common |-> Cardinality(predicted_common),
              predicted_proper |-> Cardinality(predicted_proper),
              true_positive |-> true_positive,
              true_negative |-> true_negative,
              false_positive |-> false_positive,
              false_negative |-> false_negative,
              accuracy |-> Accuracy(true_positive, true_negative,
                                    Cardinality(gold_words)),
              precision |-> precision,
              recall |-> recall,
              f1 |-> F1(precision, recall),
              missing_words |-> sort_words(missing_words),
              false_positive_words |-> sort_words(false_positive_words),
              false_negative_words |-> sort_words(false_negative_words),
              extra_common_predictions |-> sort_words(extra_common_predictions),
              extra_proper_predictions |-> sort_words(extra_proper_predictions)]

Evaluate ==
    /\ outcome.kind = "none"
    /\ outcome' = evaluate_against_gold(gold_fieldnames, gold_rows,
                                        ambiguous_predictions, proper_predictions)
    /\ UNCHANGED <<gold_fieldnames, gold_rows, ambiguous_predictions,
                   proper_predictions>>
    /\ UNCHANGED <<classifier_vars, call_vars, thread_vars>>

\* the classifier's variables, at rest
ClassifierIdle ==
    /\ common_txt = {}
    /\ proper_txt = None
    /\ wordfreq_available = FALSE
    /\ zipf_level = 0
    /\ CachesEmpty
    /\ op = "none"
    /\ words = <<>>
    /\ result = [ambiguous |-> <<>>, proper |-> <<>>]
    /\ written = None

\* a gold file is empty (no header), or has a header without the Truth
\* column and rows without Truth cells, or has both columns
GoldFileInit ==
    \/ /\ gold_fieldnames = None
       /\ gold_rows = <<>>
    \/ /\ gold_fieldnames = Some({"Word"})
       /\ gold_rows \in {<<>>, <<<<<<"a">>, <<>>>>>>}
    \/ /\ gold_fieldnames = Some({"Word", "Truth"})
       /\ gold_rows \in ListsUpTo(GoldRowPool, MaxGoldRows)

InitEval ==
    /\ GoldFileInit
    /\ ambiguous_predictions \in SUBSET PredictionLines
    /\ proper_predictions \in SUBSET PredictionLines
    /\ outcome = [kind |-> "none"]
    /\ ClassifierIdle
    /\ ThreadsIdle

NextEval == Evaluate

SpecEval == InitEval /\ [][NextEval]_vars

----------------------------------------------------------------------------
(* Properties of the batch classifier, checked under SpecClassify.         *)

\* the lexicons as the data files give them
CommonLexicon == StrippedLines(common_txt)
ProperLexicon == IF proper_txt = None THEN {} ELSE StrippedLines(Get(proper_txt))

IsCommonMember(w) ==
    \/ w \in CommonLexicon
    \/ IsLower(w) /\ \E x \in CommonLexicon : Lower(x) = Lower(w)

IsProperMember(w) ==
    \/ w \in ProperLexicon
    \/ IsLower(w) /\ \E x \in ProperLexicon : Lower(x) = Lower(w)

\* the non-blank words of the input, trimmed
InputWords == {Strip(words[i]) : i \in 1..Len(words)} \ {<<>>}

NoDuplicates(s) == \A i, j \in 1..Len(s) : i # j => s[i] # s[j]
Ascending(s) == \A i \in 1..(Len(s) - 1) : ~StrLess(s[i + 1], s[i])

\* C1 (Lexicon override law): after a classifier call, no word of the
\* ambiguous list is a proper-lexicon member, and every proper-lexicon member
\* of the input list is in the proper list, whatever its score, frequency or
\* common-lexicon membership.
C1_LexiconOverride ==
    op # "none" =>
        /\ \A w \in Range(result.ambiguous) : ~IsProperMember(w)
        /\ \A i \in 1..Len(words) :
              IsProperMember(words[i]) =>
                  /\ words[i] \in Range(result.proper)
                  /\ words[i] \notin Range(result.ambiguous)

\* C1 witness: a proper-lexicon member that is also a common-lexicon member
\* and is scored "likely ambiguous" was classified, and sits in the proper list.
C1_Witness ==
    /\ op = "classify_words"
    /\ \E i \in 1..Len(words) :
          /\ IsProperMember(words[i])
          /\ IsCommonMember(words[i])
          /\ classify_word(words[i], Lexicon).label = "likely ambiguous"
          /\ words[i] \in Range(result.proper)

RECURSIVE IsSubSeq(_, _)
IsSubSeq(s, t) ==
    IF s = <<>> THEN TRUE
    ELSE IF t = <<>> THEN FALSE
    ELSE IF Head(s) = Head(t) THEN IsSubSeq(Tail(s), Tail(t))
    ELSE IsSubSeq(s, Tail(t))

C9_BucketByLexiconOnly ==
    (op # "none" /\ ~wordfreq_available) =>
        \A w \in InputWords :
            LET commonOnly == IsCommonMember(w) /\ ~IsProperMember(w)
            IN  /\ w \in Range(result.ambiguous) <=> commonOnly
                /\ w \in Range(result.proper) <=> ~commonOnly
                /\ (commonOnly /\ Len(w) > 40) =>
                       classify_word(w, Lexicon).label = "likely non-ambiguous"

\* C9 witness: with the frequency provider disabled, a common-only word of
\* more than 40 characters, labelled "likely non-ambiguous", is in the
\* ambiguous list, next to a word of neither lexicon in the proper list.
C9_Witness ==
    /\ op = "classify_words"
    /\ ~wordfreq_available
    /\ \E w \in InputWords :
          /\ Len(w) > 40
          /\ IsCommonMember(w) /\ ~IsProperMember(w)
          /\ classify_word(w, Lexicon).label = "likely non-ambiguous"
          /\ w \in Range(result.ambiguous)
    /\ \E w \in InputWords :
          /\ ~IsCommonMember(w) /\ ~IsProperMember(w)
          /\ w \in Range(result.proper)

\* C10 (scorer and batch classifier agree on proper membership): for every
\* classified word, classify_word adds the PROPER_MEMBERSHIP penalty exactly
\* when classify_words computes treat_as_proper, and adds it at most once.
C10_ProperRulesAgree ==
    op # "none" =>
        \A w \in InputWords :
            LET lex == Lexicon
                res == classify_word(w, lex)
                penalty == ProperTerm(w, lex.propers, lex.propers_lower)
                unpenalised == res.score - CommonTerm(w, lex.commons, lex.commons_lower)
                               - ZIPF_MULTIPLIER * (zipf(Lower(w)) + ZIPF_BIAS)
                               + WORD_LENGTH_MULTIPLIER * (Len(w) - WORD_LENGTH_NEUTRAL)
            IN  /\ penalty \in {0, PROPER_MEMBERSHIP}
                /\ unpenalised = penalty
                /\ (penalty = PROPER_MEMBERSHIP) <=>
                       treat_as_proper(res, lex.propers, lex.propers_lower)

\* C10 witness: a classified word matches the proper set exactly and also
\* matches the lowercase proper set through the all-lowercase fallback.
C10_Witness ==
    /\ op # "none"
    /\ \E w \in InputWords :
          /\ w \in ProperLexicon
          /\ IsLower(w)
          /\ Lower(w) \in Get(proper_lower_cache)
          /\ w \in Range(result.proper)

----------------------------------------------------------------------------
(* Properties of the evaluator, checked under SpecEval.                    *)

Evaluated == outcome.kind # "none"
Reported == outcome.kind = "report"

\* the gold file as its rows give it
HeaderOk == gold_fieldnames # None /\ {"Word", "Truth"} \subseteq Get(gold_fieldnames)
RowWord(i) == Strip(gold_rows[i][1])
RowLabel(i) == normalise_truth(gold_rows[i][2])
GoldWordSet == {RowWord(i) : i \in 1..Len(gold_rows)} \ {<<>>}
\* row j gives its word a label that differs from an earlier row's
ConflictAt(j) ==
    \E i \in 1..(j - 1) :
        /\ RowWord(i) = RowWord(j) /\ RowWord(j) # <<>>
        /\ RowLabel(i) # "" /\ RowLabel(j) # ""
        /\ RowLabel(i) # RowLabel(j)
\* row k has a word and a Truth value that is no known label
BadLabelAt(k) == RowWord(k) # <<>> /\ RowLabel(k) = ""
ConflictRows == {j \in 1..Len(gold_rows) : ConflictAt(j)}
BadLabelRows == {k \in 1..Len(gold_rows) : BadLabelAt(k)}
GoldLoads == HeaderOk /\ ConflictRows = {} /\ BadLabelRows = {}
\* every row of word w carries the same known label
RowsAgree(w) ==
    \A i, j \in 1..Len(gold_rows) :
        (RowWord(i) = w /\ RowWord(j) = w) =>
            (RowLabel(i) # "" /\ RowLabel(i) = RowLabel(j))
LabelOf(w) == RowLabel(CHOOSE i \in 1..Len(gold_rows) : RowWord(i) = w)

CommonFileWords == StrippedLines(ambiguous_predictions)
ProperFileWords == StrippedLines(proper_predictions)

ConfusionSum ==
    outcome.true_positive + outcome.true_negative
    + outcome.false_positive + outcome.false_negative

\* C3 as claimed (Confusion partition): in every report
\* TP+TN+FP+FN <= total_words and the gap is len(missing_words).
C3_GapIsMissing ==
    Reported =>
        /\ ConfusionSum <= outcome.total_words
        /\ outcome.total_words - ConfusionSum = Len(outcome.missing_words)

\* C3 amended: in every report TP+TN+FP+FN <= total_words, missing_words are
\* the gold words absent from both prediction sets, and the gap
\* total_words - (TP+TN+FP+FN) is the number of missing words that are not
\* false negatives, i.e. the missing gold-proper words (a missing gold-common
\* word is counted in FN).
C3_GapIsMissingProper ==
    Reported =>
        /\ ConfusionSum <= outcome.total_words
        /\ Range(outcome.missing_words) =
               GoldWordSet \ (CommonFileWords \cup ProperFileWords)
        /\ outcome.total_words - ConfusionSum =
               Cardinality(Range(outcome.missing_words)
                           \ Range(outcome.false_negative_words))
        /\ \A w \in Range(outcome.missing_words) :
               w \in Range(outcome.false_negative_words) <=> LabelOf(w) = "common"

\* C3 witness: a report with a missing gold-common word and a missing
\* gold-proper word.
C3_Witness ==
    /\ Reported
    /\ \E w \in Range(outcome.missing_words) : LabelOf(w) = "common"
    /\ \E w \in Range(outcome.missing_words) : LabelOf(w) = "proper"
    /\ outcome.total_words - ConfusionSum = 1

\* C4 as claimed (Overlap detection): whenever a word is in both prediction
\* files and the gold file loads, the evaluation raises the consistency error
\* with the number of such words, and returns no report.
C4_AnySharedWordRaises ==
    (Evaluated /\ GoldLoads /\ CommonFileWords \cap ProperFileWords # {}) =>
        /\ outcome.kind = "error"
        /\ outcome.error = "overlap"
        /\ outcome.count = Cardinality(CommonFileWords \cap ProperFileWords)

\* C4 amended: when the gold file loads, the evaluation raises the consistency
\* error exactly when some gold word is in both prediction files, the count
\* it reports is the number of gold words in both files, and no report is
\* returned; words in both files that are not gold words raise nothing.
C4_SharedGoldWordRaises ==
    (Evaluated /\ GoldLoads) =>
        LET shared == CommonFileWords \cap ProperFileWords \cap GoldWordSet
        IN  IF shared # {}
            THEN /\ outcome.kind = "error"
                 /\ outcome.error = "overlap"
                 /\ outcome.count = Cardinality(shared)
            ELSE Reported

\* C4 witness: two words are in both prediction files, one of them a gold
\* word, and the consistency error reports 1.
C4_Witness ==
    /\ outcome.kind = "error"
    /\ outcome.error = "overlap"
    /\ outcome.count = 1
    /\ Cardinality(CommonFileWords \cap ProperFileWords) = 2

\* C5 as claimed (Gold conflict detection): two rows of one word with
\* different labels make loading fail with the conflict error; a word whose
\* rows all agree raises no error and is counted once with that label.
C5_ConflictAlwaysConflictError ==
    (Evaluated /\ HeaderOk) =>
        /\ ConflictRows # {} =>
              outcome.kind = "error" /\ outcome.error = "conflict"
        /\ \A w \in GoldWordSet :
              RowsAgree(w) =>
                  /\ ~(outcome.kind = "error" /\ outcome.error = "conflict"
                       /\ outcome.word = w)
                  /\ Reported => outcome.total_words = Cardinality(GoldWordSet)

\* least element of a non-empty set of row numbers
First(S) == CHOOSE i \in S : \A j \in S : i <= j

\* C5 amended: two rows of one word (trimmed, case-sensitive) with different
\* labels make loading fail and no report is produced; the error is the
\* conflict error unless a row with a word and an unrecognised Truth value
\* comes before the first conflicting row, and then it is the
\* unrecognised-label error.  A word whose rows all agree never raises the
\* conflict error, and in a report every gold word is counted once, under
\* its label.
C5_ConflictDetection ==
    (Evaluated /\ HeaderOk) =>
        /\ ConflictRows # {} =>
              /\ outcome.kind = "error"
              /\ IF BadLabelRows # {} /\ First(BadLabelRows) < First(ConflictRows)
                 THEN outcome.error = "label"
                 ELSE /\ outcome.error = "conflict"
                      /\ outcome.word = RowWord(First(ConflictRows))
        /\ \A w \in GoldWordSet :
              RowsAgree(w) =>
                  ~(outcome.kind = "error" /\ outcome.error = "conflict"
                    /\ outcome.word = w)
        /\ Reported =>
              /\ \A w \in GoldWordSet : RowsAgree(w)
              /\ outcome.total_words = Cardinality(GoldWordSet)
              /\ outcome.total_common =
                     Cardinality({w \in GoldWordSet : LabelOf(w) = "common"})
              /\ outcome.total_proper =
                     Cardinality({w \in GoldWordSet : LabelOf(w) = "proper"})

\* C5 witness: a word has two agreeing rows written differently ("Common",
\* "ambiguous") and then, padded, a row labelled Proper: the conflict error.
C5_Witness ==
    /\ outcome.kind = "error"
    /\ outcome.error = "conflict"
    /\ Len(gold_rows) = 3
    /\ gold_rows[1][2] # gold_rows[2][2]
    /\ RowLabel(1) = RowLabel(2)
    /\ RowWord(1) = RowWord(2)
    /\ gold_rows[3][1] # gold_rows[1][1]
    /\ ConflictAt(3)

\* C6 (Undefined metrics are absent, never zero): in every report precision
\* is absent exactly when TP+FP = 0 and else is TP/(TP+FP); recall is absent
\* exactly when TP+FN = 0 and else is TP/(TP+FN); F1 is present exactly when
\* both are present and their sum is not zero; accuracy is
\* (TP+TN)/total_words, or 0.0 without gold words.
C6_UndefinedMetricsAbsent ==
    Reported =>
        LET tp == outcome.true_positive
            fp == outcome.false_positive
            fn == outcome.false_negative
            tn == outcome.true_negative
        IN  /\ outcome.precision = Absent <=> tp + fp = 0
            /\ tp + fp # 0 => outcome.precision = Frac(tp, tp + fp)
            /\ outcome.recall = Absent <=> tp + fn = 0
            /\ tp + fn # 0 => outcome.recall = Frac(tp, tp + fn)
            /\ outcome.f1 # Absent <=>
                   /\ outcome.precision # Absent
                   /\ outcome.recall # Absent
                   /\ tp * (tp + fn) + tp * (tp + fp) # 0
            /\ outcome.total_words # 0 =>
                   outcome.accuracy = Frac(tp + tn, outcome.total_words)
            /\ outcome.total_words = 0 => outcome.accuracy = Frac(0, 1)

\* C6 witness: a report with precision absent (TP+FP = 0), recall present and
\* equal to 0, and F1 absent.
C6_Witness ==
    /\ Reported
    /\ outcome.precision = Absent
    /\ outcome.recall = Frac(0, 1)
    /\ outcome.f1 = Absent
    /\ outcome.total_words = 1

\* 0 <= n/d <= 1
InUnit(x) == x[2] > 0 /\ 0 <= x[1] /\ x[1] <= x[2]

\* C7 (Metric bounds): in every report 0 <= accuracy <= 1, and precision,
\* recall and F1, when present, are in [0, 1]; TP+TN <= total_words.
C7_MetricBounds ==
    Reported =>
        /\ InUnit(outcome.accuracy)
        /\ outcome.precision # Absent => InUnit(outcome.precision)
        /\ outcome.recall # Absent => InUnit(outcome.recall)
        /\ outcome.f1 # Absent => InUnit(outcome.f1)
        /\ outcome.true_positive + outcome.true_negative <= outcome.total_words

\* C7 witness: a report whose four metrics are all present, with precision
\* 1/2 and recall 1.
C7_Witness ==
    /\ Reported
    /\ outcome.precision = Frac(1, 2)
    /\ outcome.recall = Frac(1, 1)
    /\ outcome.f1 # Absent
    /\ outcome.f1[1] * 3 = outcome.f1[2] * 2

----------------------------------------------------------------------------
(* Property of the lexicon store, checked under SpecCache.                 *)

\* C8 (Lexicon cache initialised once): each of the four caches is assigned
\* at most once, also when several threads use the loaders for the first
\* time concurrently: no two threads both see a cache None and both fill it.
C8_CacheInitialisedOnce ==
    /\ \A k \in DOMAIN Loaders : stores[k] <= 1
    /\ \A k \in DOMAIN Loaders :
          Cardinality({t \in Threads : pc[t][1] = k
                                       /\ pc[t][2] \in {"build", "store"}}) <= 1

====
